---- MODULE Spec2Model ----
(***************************************************************************)
(* A model of magiclens' HTML to Markdown converter                         *)
(* (src/src/magiclens/converters/html2md.py): the converter facade          *)
(* Html2MarkdownConverter with its shared Html2MarkdownService, the rule    *)
(* registry order, the dialect presets and option merge, per-call option    *)
(* overrides, the preprocessor and the postprocessor.                       *)
(*                                                                         *)
(* Python dicts are functions from a finite set of keys to values; an       *)
(* option value is a string (True/False are written "True"/"False").        *)
(* Mutable dict objects live in `heap`, so that aliasing and copying are     *)
(* visible.  A rule registry is the sequence of its rule names, in match    *)
(* priority order (each default name stands for its rule instance).         *)
(***************************************************************************)
EXTENDS Integers, Sequences, FiniteSets, TLC

VARIABLES
    heap,        \* the dict objects: "user" (the caller's options mapping),
                 \* "svc" (self.service.options), "tmp" (options of the
                 \* ephemeral service of the last override conversion)
    built,       \* TRUE once a converter has been constructed
    rules,       \* self.service.rules: the shared registry's names, in order
    tempRules,   \* the registry of the last ephemeral service
    builds,      \* number of constructions so far
    first,       \* history: dialect and options of the first construction
    priorityUsed,\* history: a rule was registered with an explicit priority
    last,        \* history: the last call, its arguments and its pre-state
    markdown,    \* the text handed to _postprocess, a sequence of characters
    result,      \* what _postprocess returned
    postDone,    \* TRUE once _postprocess has run
    soup,        \* the parsed tree handed to _preprocess: its nodes in
                 \* document order, each with its depth below the root
    clean,       \* self.options["clean"]
    soupBefore,  \* history: the tree before the last _preprocess
    passes       \* number of times _preprocess has run on the tree

convVars == <<heap, built, rules, tempRules, builds, first, priorityUsed, last>>

postVars == <<markdown, result, postDone>>

preVars == <<soup, clean, soupBefore, passes>>

vars == <<convVars, postVars, preVars>>

----------------------------------------------------------------------------
(* Bounds of the model *)

MaxCustomRules == 2
MaxBuilds == 2
MaxLen == 5
MaxNodes == 3
MaxPasses == 2

----------------------------------------------------------------------------
(* Python dict operations *)

EmptyDict == [k \in {} |-> "none"]

DictGet(d, k, default) == IF k \in DOMAIN d THEN d[k] ELSE default

DictPop(d, k) == [x \in (DOMAIN d) \ {k} |-> d[x]]

DictUpdate(d, other) ==
    [k \in (DOMAIN d) \cup (DOMAIN other) |->
        IF k \in DOMAIN other THEN other[k] ELSE d[k]]

DictTruthy(d) == DOMAIN d # {}

----------------------------------------------------------------------------
(* The rule registry (core/registry.py is not part of the sources; add and  *)
(* insert follow the registry contract: add appends, insert places at a     *)
(* 0-based index and shifts the later entries, like list.insert).           *)

RegistryAdd(rs, name) == Append(rs, name)

RegistryInsert(rs, name, index) ==
    LET i == IF index > Len(rs) THEN Len(rs) ELSE index
    IN  SubSeq(rs, 1, i) \o <<name>> \o SubSeq(rs, i + 1, Len(rs))

RegistryNames(rs) == {rs[i] : i \in 1..Len(rs)}

(* Html2MarkdownService.register_rule *)
ServiceRegisterRule(rs, name) == RegistryAdd(rs, name)

DefaultRuleNames ==
    << "paragraph", "heading", "blockquote", "code-block", "unordered-list",
       "ordered-list", "task-list", "list-item", "horizontal-rule", "table",
       "definition-list", "strong", "emphasis", "code", "link", "image",
       "strikethrough", "subscript", "superscript", "text" >>

RECURSIVE RegisterAll(_, _)
RegisterAll(rs, names) ==
    IF names = <<>> THEN rs
    ELSE RegisterAll(ServiceRegisterRule(rs, Head(names)), Tail(names))

(* Html2MarkdownService._register_default_rules on a new RuleRegistry() *)
RegisterDefaultRules == RegisterAll(<<>>, DefaultRuleNames)

----------------------------------------------------------------------------
(* Dialect presets *)

DefaultDialect == "github"

DialectTable ==
    [ commonmark |->
        [ headingStyle |-> "atx", bulletListMarker |-> "*",
          codeBlockStyle |-> "fenced", emDelimiter |-> "*",
          strongDelimiter |-> "**", linkStyle |-> "inlined",
          useHtmlTags |-> "True", gfm |-> "False" ],
      github |->
        [ headingStyle |-> "atx", bulletListMarker |-> "-",
          codeBlockStyle |-> "fenced", emDelimiter |-> "*",
          strongDelimiter |-> "**", linkStyle |-> "inlined",
          useHtmlTags |-> "True", gfm |-> "True", strikethrough |-> "True",
          tables |-> "True", taskLists |-> "True" ],
      traditional |->
        [ headingStyle |-> "setext", bulletListMarker |-> "*",
          codeBlockStyle |-> "indented", emDelimiter |-> "_",
          strongDelimiter |-> "__", linkStyle |-> "referenced",
          useHtmlTags |-> "True", gfm |-> "False",
          smartPunctuation |-> "True" ],
      custom |-> EmptyDict ]

(* A lookup that falls back to the default dialect's preset *)
GetDialectOptionsFallbackGithub(dialect) ==
    DictGet(DialectTable, dialect, DialectTable[DefaultDialect])

(* Html2MarkdownConverter._get_dialect_options: a new dict on every call *)
GetDialectOptions(dialect) == DictGet(DialectTable, dialect, EmptyDict)

(* A merge in which the preset's values win *)
MergeOptionsPresetWins(dialect_options, options) ==
    DictUpdate(options, dialect_options)

(* dialect_options.update(options) *)
MergeOptions(dialect_options, options) == DictUpdate(dialect_options, options)

----------------------------------------------------------------------------
(* Inputs *)

AllCustomNames == << "custom-a", "custom-b", "custom-c", "custom-d" >>

CustomNames == {AllCustomNames[i] : i \in 1..MaxCustomRules}

DialectNames == {"commonmark", "github", "traditional", "custom", "markdownx"}

(* The options mappings a caller hands to the constructor *)
UserOptions ==
    { DictUpdate(DictUpdate(d, b), m) :
        d \in {EmptyDict} \cup {[dialect |-> n] : n \in DialectNames},
        b \in {EmptyDict, [bulletListMarker |-> "+"]},
        m \in {EmptyDict, [frontMatter |-> "yaml"]} }

(* Keyword arguments of convert_html *)
ConvertKwargs ==
    { EmptyDict,
      [fragment |-> "True", fragment_root |-> "section"],
      [headingStyle |-> "setext"],
      [fragment |-> "True", bulletListMarker |-> "*"] }

(* Keyword arguments of convert_html_fragment *)
FragmentKwargs == { EmptyDict, [headingStyle |-> "setext"] }

(* Keyword arguments of convert_url *)
UrlKwargs == { EmptyDict, [content_type |-> "text/html"] }

NoPriority == <<>>

NoCall ==
    [ op |-> "none", name |-> "", priority |-> NoPriority, kwargs |-> EmptyDict,
      override |-> FALSE, passNone |-> FALSE, dialect |-> "",
      preUser |-> EmptyDict, preOptions |-> EmptyDict, preRules |-> <<>> ]

----------------------------------------------------------------------------
(* Html2MarkdownConverter.__init__ *)

Construct(passNone) ==
    /\ builds < MaxBuilds
    /\ LET aliasUser == ~passNone /\ DictTruthy(heap["user"])
           options0 == IF aliasUser THEN heap["user"] ELSE EmptyDict
           dialect == DictGet(options0, "dialect", DefaultDialect)
           options == DictPop(options0, "dialect")
           preset == GetDialectOptions(dialect)
           dialect_options ==
               IF DictTruthy(options) THEN MergeOptions(preset, options)
               ELSE preset
       IN  /\ heap' = [heap EXCEPT !["user"] = IF aliasUser THEN options ELSE @,
                                   !["svc"] = dialect_options]
           /\ first' = IF builds = 0
                       THEN [dialect |-> dialect, options |-> dialect_options,
                             passNone |-> passNone]
                       ELSE first
           /\ last' = [NoCall EXCEPT !.op = "construct", !.passNone = passNone,
                                     !.dialect = dialect,
                                     !.preUser = options0,
                                     !.preOptions = IF built THEN heap["svc"]
                                                    ELSE EmptyDict,
                                     !.preRules = rules]
    /\ built' = TRUE
    /\ rules' = RegisterDefaultRules
    /\ builds' = builds + 1
    /\ priorityUsed' = FALSE
    /\ UNCHANGED <<tempRules, postVars, preVars>>

----------------------------------------------------------------------------
(* Html2MarkdownConverter.register_rule *)

(* 0-based index of the first entry named "text", -1 when there is none *)
TextRuleIndex(rs) ==
    IF \E i \in 1..Len(rs) : rs[i] = "text"
    THEN (CHOOSE i \in 1..Len(rs) :
              rs[i] = "text" /\ \A j \in 1..(i - 1) : rs[j] # "text") - 1
    ELSE -1

(* A registration that always appends *)
ConverterRegisterRuleAppend(rs, name, priority) == ServiceRegisterRule(rs, name)

ConverterRegisterRule(rs, name, priority) ==
    IF priority = NoPriority /\ TextRuleIndex(rs) >= 0
    THEN RegistryInsert(rs, name, TextRuleIndex(rs))
    ELSE ServiceRegisterRule(rs, name)

Priorities(rs) == {NoPriority} \cup {<<p>> : p \in {0, Len(rs) - 1, Len(rs)}}

RegisterRule(name, priority) ==
    /\ built
    /\ name \notin RegistryNames(rules)
    /\ rules' = ConverterRegisterRule(rules, name, priority)
    /\ priorityUsed' = (priorityUsed \/ priority # NoPriority)
    /\ last' = [NoCall EXCEPT !.op = "register", !.name = name,
                              !.priority = priority,
                              !.preOptions = heap["svc"], !.preRules = rules]
    /\ UNCHANGED <<heap, built, tempRules, builds, first, postVars, preVars>>

----------------------------------------------------------------------------
(* Html2MarkdownConverter.convert_html, convert_html_fragment, convert_url *)

(* No copy: the override options are built in the shared dict itself *)
CopyTargetAlias(ref) == ref

(* self.service.options.copy(): the object the override options are built in *)
CopyTarget(ref) == "tmp"

(* turndown (core/service.py) only reads the options and the registry of the
   service it runs on, so a conversion is modelled by what it does to the
   converter's objects. *)
ConvertHtmlCall(op, kwargs0) ==
    LET kwargs == DictPop(DictPop(kwargs0, "fragment"), "fragment_root")
        target == CopyTarget("svc")
        copied == [heap EXCEPT ![target] = heap["svc"]]
        updated == [copied EXCEPT ![target] = DictUpdate(copied[target], kwargs)]
    IN  /\ built
        /\ IF DictTruthy(kwargs)
           THEN /\ heap' = updated
                /\ tempRules' = RegisterDefaultRules
           ELSE UNCHANGED <<heap, tempRules>>
        /\ last' = [NoCall EXCEPT !.op = op, !.kwargs = kwargs0,
                                  !.override = DictTruthy(kwargs),
                                  !.preOptions = heap["svc"], !.preRules = rules]
        /\ UNCHANGED <<built, rules, builds, first, priorityUsed, postVars, preVars>>

ConvertHtml(kwargs) == ConvertHtmlCall("convert_html", kwargs)

ConvertHtmlFragment(kwargs) ==
    ConvertHtmlCall("convert_html_fragment",
                    DictUpdate(kwargs, [fragment |-> "True"]))

ConvertUrl(kwargs) ==
    LET withType ==
            IF "content_type" \notin DOMAIN kwargs
            THEN DictUpdate(kwargs, [content_type |-> "text/plain"])
            ELSE kwargs
    IN  ConvertHtmlCall("convert_url",
                        DictUpdate(withType, [url |-> "http://example.org/"]))

----------------------------------------------------------------------------
(* Html2MarkdownService._postprocess *)

NL == "\n"

Chars == {"a", " ", "\t", NL}

Whitespace == {" ", "\t", NL}

(* markdown.split('\n') *)
RECURSIVE Split(_)
Split(s) ==
    IF s = <<>> THEN << <<>> >>
    ELSE LET rest == Split(Tail(s))
         IN  IF Head(s) = NL THEN << <<>> >> \o rest
             ELSE << <<Head(s)>> \o Head(rest) >> \o Tail(rest)

(* not line.strip() *)
IsEmptyLine(line) == \A i \in 1..Len(line) : line[i] \in Whitespace

(* A loop that drops every empty line *)
RECURSIVE PostprocessLoopDropAll(_, _, _)
PostprocessLoopDropAll(lines, acc, prev_empty) ==
    IF lines = <<>> THEN acc
    ELSE LET line == Head(lines)
             is_empty == IsEmptyLine(line)
         IN  IF is_empty
             THEN PostprocessLoopDropAll(Tail(lines), acc, prev_empty)
             ELSE PostprocessLoopDropAll(Tail(lines), Append(acc, line), is_empty)

(* the for loop over lines, with result and prev_empty *)
RECURSIVE PostprocessLoop(_, _, _)
PostprocessLoop(lines, acc, prev_empty) ==
    IF lines = <<>> THEN acc
    ELSE LET line == Head(lines)
             is_empty == IsEmptyLine(line)
         IN  IF is_empty /\ prev_empty
             THEN PostprocessLoop(Tail(lines), acc, prev_empty)
             ELSE PostprocessLoop(Tail(lines), Append(acc, line), is_empty)

(* '\n'.join(result) *)
RECURSIVE Join(_)
Join(lines) ==
    IF lines = <<>> THEN <<>>
    ELSE IF Len(lines) = 1 THEN Head(lines)
    ELSE Head(lines) \o <<NL>> \o Join(Tail(lines))

Postprocess(text) == Join(PostprocessLoop(Split(text), <<>>, FALSE))

Texts == UNION {[1..n -> Chars] : n \in 0..MaxLen}

RunPostprocess ==
    /\ ~postDone
    /\ result' = Postprocess(markdown)
    /\ postDone' = TRUE
    /\ UNCHANGED <<markdown, convVars, preVars>>

----------------------------------------------------------------------------
(* Html2MarkdownService._preprocess                                         *)
(*                                                                         *)
(* A tree is the sequence of its nodes in document order; a node records    *)
(* its identity, its depth below the root, its kind ("tag", "text" or       *)
(* "comment"), its tag name, the names of its attributes and its class      *)
(* list.  The children of node i are the nodes after it that are deeper,    *)
(* up to the next node that is not.                                         *)

DefaultRemoveTags == << "script", "style", "noscript" >>

VoidTags == {"img", "br", "hr", "input", "meta", "link"}

SeqToSet(q) == {q[i] : i \in 1..Len(q)}

(* clean_options.get(key, default) *)
CleanGet(key, default) ==
    IF key \in clean.given THEN clean[key] ELSE default

IndexOf(t, id) == CHOOSE i \in 1..Len(t) : t[i].id = id

InTree(t, id) == \E i \in 1..Len(t) : t[i].id = id

(* tag.contents is not empty *)
HasContents(t, i) == i < Len(t) /\ t[i + 1].depth > t[i].depth

(* The index of the last node of the subtree of node i *)
SubtreeEnd(t, i) ==
    CHOOSE j \in i..Len(t) :
        /\ \A k \in (i + 1)..j : t[k].depth > t[i].depth
        /\ (j = Len(t) \/ t[j + 1].depth <= t[i].depth)

(* tag.decompose(): the node and its subtree leave the tree; nothing happens
   for a node that left with an ancestor *)
Decompose(t, id) ==
    IF InTree(t, id)
    THEN LET i == IndexOf(t, id)
         IN  SubSeq(t, 1, i - 1) \o SubSeq(t, SubtreeEnd(t, i) + 1, Len(t))
    ELSE t

IsTag(n) == n.kind = "tag"

IsComment(n) == n.kind = "comment"

IdsOf(nodes) == [i \in 1..Len(nodes) |-> nodes[i].id]

(* soup.find_all() and soup.find_all(True): every tag, in document order *)
FindAllTags(t) == IdsOf(SelectSeq(t, IsTag))

(* soup.find_all(tag_name) *)
FindAllNamed(t, tag_name) ==
    IdsOf(SelectSeq(t, LAMBDA n : IsTag(n) /\ n.name = tag_name))

(* soup.find_all(string=lambda text: isinstance(text, Comment)) *)
FindAllComments(t) == IdsOf(SelectSeq(t, IsComment))

(* for tag in soup.find_all(tag_name): tag.decompose() *)
RECURSIVE DecomposeAll(_, _)
DecomposeAll(t, ids) ==
    IF ids = <<>> THEN t
    ELSE DecomposeAll(Decompose(t, Head(ids)), Tail(ids))

(* for tag_name in remove_tags: ... *)
RECURSIVE RemoveTags(_, _)
RemoveTags(t, names) ==
    IF names = <<>> THEN t
    ELSE RemoveTags(DecomposeAll(t, FindAllNamed(t, Head(names))), Tail(names))

(* del tag.attrs[attr] for every attr of remove_attrs the tag has *)
RemoveAttrs(t, remove_attrs) ==
    IF remove_attrs = <<>> THEN t
    ELSE [i \in 1..Len(t) |->
            IF IsTag(t[i])
            THEN [t[i] EXCEPT
                    !.attrs = @ \ SeqToSet(remove_attrs),
                    !.classes = IF "class" \in SeqToSet(remove_attrs)
                                THEN {} ELSE @]
            ELSE t[i]]

(* the class list of every tag with a class attribute, less remove_classes;
   the attribute is deleted when no class is left *)
RemoveClasses(t, remove_classes) ==
    IF remove_classes = <<>> THEN t
    ELSE [i \in 1..Len(t) |->
            IF IsTag(t[i]) /\ "class" \in t[i].attrs
            THEN LET classes_to_remove ==
                         t[i].classes \cap SeqToSet(remove_classes)
                     classes == t[i].classes \ classes_to_remove
                 IN  IF classes_to_remove # {}
                     THEN IF classes # {}
                          THEN [t[i] EXCEPT !.classes = classes]
                          ELSE [t[i] EXCEPT !.classes = {},
                                            !.attrs = @ \ {"class"}]
                     ELSE t[i]
            ELSE t[i]]

(* for tag in soup.find_all(): decompose it when it has no contents and is
   not a void element; the list of tags is taken once, before the loop *)
RECURSIVE RemoveEmptyTags(_, _)
RemoveEmptyTags(t, ids) ==
    IF ids = <<>> THEN t
    ELSE LET id == Head(ids)
             i == IndexOf(t, id)
         IN  IF InTree(t, id) /\ ~HasContents(t, i)
                  /\ t[i].name \notin VoidTags
             THEN RemoveEmptyTags(Decompose(t, id), Tail(ids))
             ELSE RemoveEmptyTags(t, Tail(ids))

(* comment.extract() for every comment of the tree *)
RemoveComments(t) ==
    DecomposeAll(t, FindAllComments(t))

Preprocess(t) ==
    LET t1 == RemoveTags(t, CleanGet("removeTags", DefaultRemoveTags))
        t2 == RemoveAttrs(t1, CleanGet("removeAttrs", <<>>))
        t3 == RemoveClasses(t2, CleanGet("removeClasses", <<>>))
        t4 == IF CleanGet("removeEmptyTags", FALSE)
              THEN RemoveEmptyTags(t3, FindAllTags(t3))
              ELSE t3
    IN  IF CleanGet("removeComments", TRUE) THEN RemoveComments(t4) ELSE t4

RunPreprocess ==
    /\ passes < MaxPasses
    /\ soup' = Preprocess(soup)
    /\ soupBefore' = soup
    /\ passes' = passes + 1
    /\ UNCHANGED <<clean, convVars, postVars>>

(* The nodes a parsed tree is made of *)
NodeShapes ==
    { [kind |-> "tag", name |-> "div", attrs |-> {}, classes |-> {}],
      [kind |-> "tag", name |-> "div", attrs |-> {"id"}, classes |-> {}],
      [kind |-> "tag", name |-> "div", attrs |-> {"class"}, classes |-> {"ad"}],
      [kind |-> "tag", name |-> "div", attrs |-> {"id", "class"},
       classes |-> {"ad", "note"}],
      [kind |-> "tag", name |-> "img", attrs |-> {}, classes |-> {}],
      [kind |-> "tag", name |-> "script", attrs |-> {}, classes |-> {}],
      [kind |-> "text", name |-> "", attrs |-> {}, classes |-> {}],
      [kind |-> "comment", name |-> "", attrs |-> {}, classes |-> {}] }

MakeNode(shape, id, depth) ==
    [id |-> id, depth |-> depth, kind |-> shape.kind, name |-> shape.name,
     attrs |-> shape.attrs, classes |-> shape.classes]

(* What a parser builds: only an element that is not void has children,
   and a script element holds nothing but text *)
WellFormed(t) ==
    /\ t # <<>> => t[1].depth = 1
    /\ \A i \in 1..(Len(t) - 1) :
           /\ t[i + 1].depth <= t[i].depth + 1
           /\ t[i + 1].depth = t[i].depth + 1 =>
                  (IsTag(t[i]) /\ t[i].name \notin VoidTags)
           /\ (t[i].name = "script" /\ t[i + 1].depth > t[i].depth) =>
                  (t[i + 1].kind = "text"
                      /\ (i + 1 = Len(t) \/ t[i + 2].depth <= t[i].depth))

Trees ==
    UNION { { t \in { [i \in 1..n |-> MakeNode(sh[i], i, dp[i])] :
                          sh \in [1..n -> NodeShapes], dp \in [1..n -> 1..n] } :
                WellFormed(t) } : n \in 0..MaxNodes }

CleanOptions ==
    { [given |-> g,
       removeTags |-> IF "removeTags" \in g THEN rt ELSE <<>>,
       removeAttrs |-> IF "removeAttrs" \in g THEN ra ELSE <<>>,
       removeClasses |-> IF "removeClasses" \in g THEN <<"ad">> ELSE <<>>,
       removeEmptyTags |-> "removeEmptyTags" \in g,
       removeComments |-> "removeComments" \notin g] :
        g \in SUBSET {"removeTags", "removeAttrs", "removeClasses",
                      "removeEmptyTags", "removeComments"},
        rt \in {<<>>, <<"div">>}, ra \in {<<"id">>, <<"class">>} }

----------------------------------------------------------------------------

ConvInit ==
    /\ heap = [user |-> EmptyDict, svc |-> EmptyDict, tmp |-> EmptyDict]
    /\ built = FALSE
    /\ rules = <<>>
    /\ tempRules = <<>>
    /\ builds = 0
    /\ first = [dialect |-> "", options |-> EmptyDict, passNone |-> FALSE]
    /\ priorityUsed = FALSE
    /\ last = NoCall

PostInit ==
    /\ markdown = <<>>
    /\ result = <<>>
    /\ postDone = FALSE

PreInit ==
    /\ soup = <<>>
    /\ clean = [given |-> {}, removeTags |-> <<>>, removeAttrs |-> <<>>,
                removeClasses |-> <<>>, removeEmptyTags |-> FALSE,
                removeComments |-> TRUE]
    /\ soupBefore = <<>>
    /\ passes = 0

(* The preprocessor applied, MaxPasses times over, to every tree of at most
   MaxNodes nodes under every clean configuration *)
InitPre ==
    /\ ConvInit
    /\ PostInit
    /\ soup \in Trees
    /\ clean \in CleanOptions
    /\ soupBefore = <<>>
    /\ passes = 0

NextPre == RunPreprocess

SpecPre == InitPre /\ [][NextPre]_vars

(* The postprocessor applied to every text of at most MaxLen characters *)
InitPost ==
    /\ ConvInit
    /\ PreInit
    /\ markdown \in Texts
    /\ result = <<>>
    /\ postDone = FALSE

NextPost == RunPostprocess

SpecPost == InitPost /\ [][NextPost]_vars

Init ==
    /\ PostInit
    /\ PreInit
    /\ heap \in {[user |-> u, svc |-> EmptyDict, tmp |-> EmptyDict] :
                    u \in UserOptions}
    /\ built = FALSE
    /\ rules = <<>>
    /\ tempRules = <<>>
    /\ builds = 0
    /\ first = [dialect |-> "", options |-> EmptyDict, passNone |-> FALSE]
    /\ priorityUsed = FALSE
    /\ last = NoCall

Next ==
    \/ \E passNone \in BOOLEAN : Construct(passNone)
    \/ \E name \in CustomNames : \E priority \in Priorities(rules) :
           RegisterRule(name, priority)
    \/ \E kwargs \in ConvertKwargs : ConvertHtml(kwargs)
    \/ \E kwargs \in FragmentKwargs : ConvertHtmlFragment(kwargs)
    \/ \E kwargs \in UrlKwargs : ConvertUrl(kwargs)

Spec == Init /\ [][Next]_vars

----------------------------------------------------------------------------
(* Properties of the converter facade *)

ConvertOps == {"convert_html", "convert_html_fragment", "convert_url"}

Without(rs, name) == SelectSeq(rs, LAMBDA n : n # name)

(* The effective user options of the last construction, as the caller gave
   them, and the dialect they select *)
GivenDialect(user) == DictGet(user, "dialect", "github")

KnownDialects == {"commonmark", "github", "traditional", "custom"}

PresetOf(dialect) ==
    IF dialect \in KnownDialects THEN DialectTable[dialect] ELSE EmptyDict

(* C1: as long as rules are only registered without a priority on a freshly
   constructed converter, "text" stays the last entry of the registry; the
   rule just registered is the entry directly before it, and the rules
   registered earlier keep their relative order. *)
C1_DefaultInsertBeforeText ==
    /\ (built /\ ~priorityUsed) => rules[Len(rules)] = "text"
    /\ (last.op = "register" /\ last.priority = NoPriority /\ ~priorityUsed) =>
          /\ rules[Len(rules) - 1] = last.name
          /\ Without(rules, last.name) = last.preRules

C1_Witness ==
    /\ last.op = "register" /\ last.priority = NoPriority /\ ~priorityUsed
    /\ Len(rules) = Len(DefaultRuleNames) + 2
    /\ rules[Len(rules) - 1] = last.name

(* C2: a rule registered with an explicit priority index p is at position p
   of the registry afterwards (0-based), the entries that were at positions
   >= p shifted one place later. *)
C2_PriorityInsertsAtIndex ==
    (last.op = "register" /\ last.priority # NoPriority) =>
        /\ rules[last.priority[1] + 1] = last.name
        /\ Without(rules, last.name) = last.preRules

(* C3: a conversion with per-call option overrides leaves the shared
   service's option mapping and its rule registry as they were before. *)
C3_OverrideLeavesSharedUnchanged ==
    (last.op \in ConvertOps /\ last.override) =>
        /\ heap["svc"] = last.preOptions
        /\ rules = last.preRules

C3_Witness ==
    /\ last.op = "convert_url" /\ last.override
    /\ Len(rules) > Len(DefaultRuleNames)
    /\ heap["tmp"] # heap["svc"]
    /\ "url" \in DOMAIN heap["tmp"]

(* C4: the ephemeral engine of an override conversion has the same ordered
   registry as the shared instance at the moment of the call. *)
C4_EphemeralRegistryIsSnapshot ==
    (last.op \in ConvertOps /\ last.override) => tempRules = last.preRules

(* C7: the options of a constructed converter are the dialect preset merged
   with the user options, user values winning; "dialect" is not an option of
   the service; a later construction sees the preset unaltered. *)
C7_PresetMergedUserWins ==
    last.op = "construct" =>
        LET user == DictPop(last.preUser, "dialect")
            preset == PresetOf(GivenDialect(last.preUser))
        IN  /\ DOMAIN heap["svc"] = (DOMAIN user) \cup (DOMAIN preset)
            /\ \A k \in DOMAIN user : heap["svc"][k] = user[k]
            /\ \A k \in (DOMAIN preset) \ (DOMAIN user) :
                   heap["svc"][k] = preset[k]
            /\ "dialect" \notin DOMAIN heap["svc"]

C7_Witness ==
    /\ last.op = "construct" /\ builds = 2
    /\ first.dialect = "github" /\ first.options["bulletListMarker"] = "+"
    /\ last.dialect = "github" /\ heap["svc"]["bulletListMarker"] = "-"
    /\ heap["svc"]["gfm"] = "True"

(* C8: a dialect name that is not one of the four presets never fails the
   construction and gives the empty preset, so the service's options are
   exactly the user's other options; without a dialect the github preset is
   used. *)
C8_UnknownDialectFallsBackToEmpty ==
    last.op = "construct" =>
        /\ built
        /\ ("dialect" \in DOMAIN last.preUser
              /\ last.preUser["dialect"] \notin KnownDialects) =>
               heap["svc"] = DictPop(last.preUser, "dialect")
        /\ "dialect" \notin DOMAIN last.preUser =>
               /\ last.dialect = "github"
               /\ \A k \in (DOMAIN DialectTable["github"]) \ (DOMAIN last.preUser) :
                      heap["svc"][k] = DialectTable["github"][k]

C8_Witness ==
    /\ last.op = "construct"
    /\ "dialect" \in DOMAIN last.preUser
    /\ last.preUser["dialect"] = "markdownx"
    /\ heap["svc"] = [bulletListMarker |-> "+", frontMatter |-> "yaml"]

----------------------------------------------------------------------------
(* Properties of the postprocessor *)

NoTripleNewline(s) ==
    \A i \in 1..(Len(s) - 2) : ~(s[i] = NL /\ s[i + 1] = NL /\ s[i + 2] = NL)

(* s with every newline dropped that follows two newlines: each run of 3 or
   more newlines becomes exactly two, everything else is kept *)
RECURSIVE CollapseRuns(_, _)
CollapseRuns(s, run) ==
    IF s = <<>> THEN <<>>
    ELSE IF Head(s) = NL
         THEN IF run >= 2 THEN CollapseRuns(Tail(s), run)
              ELSE <<NL>> \o CollapseRuns(Tail(s), run + 1)
         ELSE <<Head(s)>> \o CollapseRuns(Tail(s), 0)

(* The text has no line made of spaces or tabs only and neither begins nor
   ends with a newline *)
PlainBlankLines(s) ==
    /\ s # <<>> => (s[1] # NL /\ s[Len(s)] # NL)
    /\ \A i \in 1..Len(Split(s)) :
           LET line == Split(s)[i] IN line # <<>> => ~IsEmptyLine(line)

NonBlankLines(s) == SelectSeq(Split(s), LAMBDA line : ~IsEmptyLine(line))

C10_NoTrailingWhitespace ==
    postDone => (result = <<>> \/ result[Len(result)] \notin Whitespace)

----------------------------------------------------------------------------
(* Properties of the preprocessor *)

(* C5: with clean.removeEmptyTags enabled, after preprocessing no element
   outside the void allowlist is left without children (a chain of nested
   empty elements is removed entirely). *)
C5_NoEmptyElementLeft ==
    (passes >= 1 /\ CleanGet("removeEmptyTags", FALSE)) =>
        \A i \in 1..Len(soup) :
            (IsTag(soup[i]) /\ soup[i].name \notin VoidTags) =>
                HasContents(soup, i)

(* C6: applying _preprocess to an already preprocessed tree changes
   nothing. *)
C6_PreprocessIdempotent ==
    passes >= 2 => soup = soupBefore

----------------------------------------------------------------------------
(* Properties of repeated construction *)

(* C11: constructing a converter leaves the caller's options mapping
   unchanged, so a converter built from the same mapping as the first one
   has the same dialect and the same merged options as the first. *)
C11_ConstructLeavesCallerOptions ==
    (last.op = "construct" /\ ~last.passNone) =>
        /\ heap["user"] = last.preUser
        /\ (builds >= 2 /\ ~first.passNone) =>
               /\ last.dialect = first.dialect
               /\ heap["svc"] = first.options

====
